---- MODULE Spec2Model ----
(***************************************************************************)
(* VCG auction: exhaustive allocation search and VCG pricing.              *)
(*                                                                         *)
(* Three programs share the data model (Bid, BidSet, Allocation,           *)
(* Solution):                                                              *)
(*   src/problem1/main.go    sequential search, welfare with per-agent     *)
(*                           fallback utilities, re-solve pricing          *)
(*   src/main.go (1..195)    bid generator, concurrent search (one         *)
(*                           goroutine per agent choice), re-solve pricing *)
(*   src/main.go (197..369)  second-best tracking search                   *)
(*                                                                         *)
(* Utilities are float64 in the source; here they are naturals in a fixed  *)
(* unit, so sums and differences are exact.  A Go map is a function whose  *)
(* DOMAIN is the set of keys present; a nil map or nil slice is the        *)
(* function with empty domain.                                             *)
(***************************************************************************)
EXTENDS Integers, FiniteSets, Sequences, TLC

VARIABLES
    n,       \* number of agents (argument of the program)
    m,       \* number of items (argument of the program)
    bs,      \* BidSet: index 0..n, bs[0] has no bids
    pc,      \* position of the main routine
    s,       \* Solution: Allocation, TotalUtility, PricePerAgent
    gen_a,   \* randomizeBidSet: the loop variable a
    tasks,   \* concurrent search: the goroutines, by the agents chosen so far
    heap,    \* the Allocation instances (Go maps are references), by name
    args,    \* os.Args
    exit_status,  \* the exit status of the process, -1 while it runs
    solution,     \* main's variable solution
    caller,  \* CalculatePrices while it waits for a solveAllocation it called
    stack,   \* second-best search: the calls of recursiveAllocationGenerator
    output   \* second-best search: what the leaves printed, with multiplicity

\* the state of main of the concurrent program
mainVars == <<args, exit_status, solution, caller>>

\* the state of the second-best search
secondVars == <<stack, output>>

vars == <<n, m, bs, pc, s, gen_a, tasks, heap, mainVars, secondVars>>

----------------------------------------------------------------------------
(* Bounds of the model *)

MaxN == 5
MaxM == 3
MaxBid == 1
MaxScenarioBid == 7
MaxBidSets == 60000
MaxDraw == 1
MaxDrawSeqs == 20000
MaxGenSlots == 8
MaxLeaves == 4
MaxNegative == 2
MaxSecondLeaves == 8
MaxMainLeaves == 3

----------------------------------------------------------------------------
(* Arithmetic helpers *)

Max(x, y) == IF x >= y THEN x ELSE y

RECURSIVE Pow2(_)
Pow2(k) == IF k <= 0 THEN 1 ELSE 2 * Pow2(k - 1)

\* b^e <= cap, computed without leaving the machine integers
RECURSIVE Fits(_, _, _)
Fits(b, e, cap) ==
    IF e = 0 THEN cap >= 1
    ELSE cap >= b /\ Fits(b, e - 1, cap \div b)

RECURSIVE SumOver(_, _)
SumOver(S, f) ==
    IF S = {} THEN 0
    ELSE LET x == CHOOSE y \in S : TRUE
         IN f[x] + SumOver(S \ {x}, f)

----------------------------------------------------------------------------
(* Data model *)

\* a nil map / nil slice
Nil == [x \in {} |-> 0]

\* the zero value of Solution
ZeroSolution == [Allocation |-> Nil, TotalUtility |-> 0, PricePerAgent |-> Nil]

\* flags = flags | 1<<uint(item), over the items of one agent
RECURSIVE Flags(_)
Flags(items) ==
    IF items = {} THEN 0
    ELSE LET i == CHOOSE x \in items : TRUE
         IN Pow2(i) + Flags(items \ {i})

\* bs[agent][flags] without the ok result: a missing key reads as 0
Lookup(bid, flags) == IF flags \in DOMAIN bid THEN bid[flags] ELSE 0

\* make(Allocation) with an empty item set for every agent 0..n
NewAllocation(nn) == [a \in 0..nn |-> {}]

\* Allocation.Copy: a new map with the same agents and items
Copy(a) == [k \in DOMAIN a |-> a[k]]

\* main of the concurrent program has not started
IdleMain ==
    /\ args = <<>>
    /\ exit_status = -1
    /\ solution = ZeroSolution
    /\ caller = <<>>

\* the second-best search has not started
IdleSecond ==
    /\ stack = <<>>
    /\ output = Nil

----------------------------------------------------------------------------
(* Welfare of an allocation *)

\* src/main.go: u += bs[agent][flags] for every agent > 0
FindTotalUtility(a, bids) ==
    SumOver({agent \in DOMAIN a : agent > 0},
            [agent \in DOMAIN a |-> Lookup(bids[agent], Flags(a[agent]))])

\* src/problem1/main.go: the switch on the agent; a bundle with no recorded
\* bid takes the agent's fallback value, an agent outside the switch adds 0
P1_Value(agent, bid, flags) ==
    CASE agent = 1 -> IF flags \in DOMAIN bid THEN bid[flags] ELSE 5
      [] agent = 2 -> IF flags \in DOMAIN bid THEN bid[flags] ELSE 4
      [] agent = 3 -> IF flags \in DOMAIN bid THEN bid[flags] ELSE 3
      [] agent = 4 -> IF flags \in DOMAIN bid THEN bid[flags] ELSE 3
      [] OTHER -> 0

P1_FindTotalUtility(a, bids) ==
    SumOver({agent \in DOMAIN a : agent > 0},
            [agent \in DOMAIN a |-> P1_Value(agent, bids[agent], Flags(a[agent]))])

\* the welfare of everybody, excluded_agent not left out
FindTotalUtilityIncludingAgent(a, bids, excluded_agent) ==
    FindTotalUtility(a, bids)

\* the welfare of everybody but excluded_agent, by plain lookup
FindTotalUtilityExceptAgent(a, bids, excluded_agent) ==
    SumOver({agent \in DOMAIN a : agent > 0 /\ agent # excluded_agent},
            [agent \in DOMAIN a |-> Lookup(bids[agent], Flags(a[agent]))])

\* the bid set without one agent, later agents moved down by one
CopyExcludingAgent(bids, agent) ==
    [a \in 0..(Cardinality(DOMAIN bids) - 2) |->
        IF a < agent THEN bids[a] ELSE bids[a + 1]]

----------------------------------------------------------------------------
(* Sequential search, src/problem1/main.go *)

\* the incumbent update at a leaf: strictly better replaces it
P1_Consider(sol, a, total_utility) ==
    IF sol.TotalUtility < total_utility
    THEN [sol EXCEPT !.Allocation = Copy(a), !.TotalUtility = total_utility]
    ELSE sol

\* the for loop of recursiveAllocationGenerator from `agent` on; the result
\* is the Solution and the Allocation as the loop leaves them
RECURSIVE P1_AgentLoop(_, _, _, _, _, _)
P1_AgentLoop(sol, bids, a, current_item, items, agent) ==
    IF agent >= Cardinality(DOMAIN a) THEN [s |-> sol, a |-> a]
    ELSE LET assigned == [a EXCEPT ![agent] = @ \cup {current_item}]
         IN IF current_item < items - 1
            THEN LET r == P1_AgentLoop(sol, bids, assigned, current_item + 1, items, 0)
                 IN P1_AgentLoop(r.s, bids,
                                 [r.a EXCEPT ![agent] = @ \ {current_item}],
                                 current_item, items, agent + 1)
            ELSE P1_AgentLoop(P1_Consider(sol, assigned, P1_FindTotalUtility(assigned, bids)),
                              bids,
                              [assigned EXCEPT ![agent] = @ \ {current_item}],
                              current_item, items, agent + 1)

P1_recursiveAllocationGenerator(sol, bids, a, current_item, items) ==
    P1_AgentLoop(sol, bids, a, current_item, items, 0).s

P1_solveAllocation(bids, nn, mm) ==
    P1_recursiveAllocationGenerator(ZeroSolution, bids, NewAllocation(nn), 0, mm)

\* Solution.CalculatePrices, re-solve strategy: the payment vector
P1_CalculatePrices(sol, bids, nn, mm) ==
    [agent \in 0..(Cardinality(DOMAIN sol.Allocation) - 1) |->
        IF agent > 0
        THEN P1_solveAllocation(CopyExcludingAgent(bids, agent), nn - 1, mm).TotalUtility
             - FindTotalUtilityExceptAgent(sol.Allocation, bids, agent)
        ELSE 0]

----------------------------------------------------------------------------
(* Bid generator, src/main.go.  rand.Float64() is a draw d in 0..MaxDraw,  *)
(* standing for the factor d/(MaxDraw+1); `draws` is the sequence of draws *)
(* one call of getRandomBid consumes, `k` the number consumed so far.      *)

Draws == 0..MaxDraw

\* b[key] = value
Put(b, key, value) ==
    [x \in DOMAIN b \cup {key} |-> IF x = key THEN value ELSE b[x]]

\* carry | 1<<uint(bit+1): the shift taken from current_bit, not current_bit-1
BitOrShiftedByOne(carry, bit) ==
    IF (carry \div Pow2(bit + 1)) % 2 = 1 THEN carry ELSE carry + Pow2(bit + 1)

\* carry | 1<<uint(bit)
BitOr(carry, bit) ==
    IF (carry \div Pow2(bit)) % 2 = 1 THEN carry ELSE carry + Pow2(bit)

\* the number of draws of one getRandomBid(mm)
DrawCount(mm) == Pow2(Max(mm, 1) + 1) - 2

RECURSIVE recursiveRandomBidGenerator(_, _, _, _, _, _, _)
recursiveRandomBidGenerator(b, carry, previous_sum, current_bit, bits, draws, k) ==
    LET b0 == Put(b, carry, previous_sum * draws[k + 1])
        r0 == IF current_bit < bits
              THEN recursiveRandomBidGenerator(b0, carry, previous_sum,
                                               current_bit + 1, bits, draws, k + 1)
              ELSE [b |-> b0, k |-> k + 1]
        new_carry == BitOr(carry, current_bit - 1)
        b1 == Put(r0.b, new_carry, (previous_sum + 1) * draws[r0.k + 1])
    IN IF current_bit < bits
       THEN recursiveRandomBidGenerator(b1, new_carry, previous_sum + 1,
                                        current_bit + 1, bits, draws, r0.k + 1)
       ELSE [b |-> b1, k |-> r0.k + 1]

getRandomBid(mm, draws) ==
    recursiveRandomBidGenerator(Nil, 0, 0, 1, mm, draws, 0).b

\* every bid function getRandomBid(mm) can return
GeneratedBids(mm) ==
    {getRandomBid(mm, draws) : draws \in [1..DrawCount(mm) -> Draws]}

----------------------------------------------------------------------------
(* Inputs of the sequential program *)

\* the bundles a search over mm items looks up (item 0 is always decided)
BundleSpace(mm) == 0..(Pow2(Max(mm, 1)) - 1)

Slots(nn, mm) == nn * Pow2(Max(mm, 1))

\* bid functions over a subset of the bundles, values 0..MaxBid
PartialBids(mm) ==
    UNION {[D -> 0..MaxBid] : D \in SUBSET BundleSpace(mm)}

\* bid functions over all bundles, values 0..MaxScenarioBid
TotalBids(mm) == [BundleSpace(mm) -> 0..MaxScenarioBid]

BidSetOf(nn, f) == [a \in 0..nn |-> IF a = 0 THEN Nil ELSE f[a]]

SmallShapes ==
    {sh \in (0..MaxN) \X (0..MaxM) :
        Fits(MaxBid + 2, Slots(sh[1], sh[2]), MaxBidSets)}

ScenarioShapes ==
    {sh \in (1..MaxN) \X (1..MaxM) :
        Fits(MaxScenarioBid + 1, Slots(sh[1], sh[2]), MaxBidSets)}

InitSeq ==
    /\ pc = "start"
    /\ s = ZeroSolution
    /\ gen_a = 0
    /\ tasks = Nil
    /\ heap = Nil
    /\ IdleMain
    /\ IdleSecond
    /\ \/ \E sh \in SmallShapes :
            /\ n = sh[1]
            /\ m = sh[2]
            /\ \E f \in [1..sh[1] -> PartialBids(sh[2])] : bs = BidSetOf(sh[1], f)
       \/ \E sh \in ScenarioShapes :
            /\ n = sh[1]
            /\ m = sh[2]
            /\ \E f \in [1..sh[1] -> TotalBids(sh[2])] : bs = BidSetOf(sh[1], f)

\* solution := solveAllocation(bs, n, m)
SolveAllocation ==
    /\ pc = "start"
    /\ s' = P1_solveAllocation(bs, n, m)
    /\ pc' = "solved"
    /\ UNCHANGED <<n, m, bs, gen_a, tasks, heap, mainVars, secondVars>>

\* solution.CalculatePrices(bs, n, m)
CalculatePrices ==
    /\ pc = "solved"
    /\ s' = [s EXCEPT !.PricePerAgent = P1_CalculatePrices(s, bs, n, m)]
    /\ pc' = "priced"
    /\ UNCHANGED <<n, m, bs, gen_a, tasks, heap, mainVars, secondVars>>

NextSeq == SolveAllocation \/ CalculatePrices

SpecSeq == InitSeq /\ [][NextSeq]_vars

----------------------------------------------------------------------------
(* What the claims speak of: the welfare of an assignment of items to      *)
(* agents, stated from the data model and not from the search.             *)

\* every agent 1..nn has a bid for every bundle in [0, 2^mm)
IsTotal(bids, nn, mm) ==
    \A a \in 1..nn : \A c \in 0..(Pow2(mm) - 1) : c \in DOMAIN bids[a]

\* all item -> agent assignments, agent 0 = nobody
Assignments(nn, mm) == [0..(mm - 1) -> 0..nn]

BundleOf(f, agent) == {i \in DOMAIN f : f[i] = agent}

\* the sum over agents 1..nn of the agent's bid for its bundle
Welfare(f, bids, nn) ==
    SumOver(1..nn, [a \in 1..nn |-> bids[a][Flags(BundleOf(f, a))]])

MaxWelfare(bids, nn, mm) ==
    LET W == {Welfare(f, bids, nn) : f \in Assignments(nn, mm)}
    IN CHOOSE w \in W : \A v \in W : v <= w

\* the bid set of the agents other than i, in their order
Without(bids, i) ==
    [a \in 0..(Cardinality(DOMAIN bids) - 2) |-> IF a < i THEN bids[a] ELSE bids[a + 1]]

\* the items the returned Allocation gives an agent (none when it has no entry)
Assigned(agent) ==
    IF agent \in DOMAIN s.Allocation THEN s.Allocation[agent] ELSE {}

\* the sum of the recorded bids only, for the bundles of an allocation
RecordedUtility(a, bids) ==
    SumOver({agent \in DOMAIN a : agent > 0 /\ Flags(a[agent]) \in DOMAIN bids[agent]},
            [agent \in DOMAIN a |-> bids[agent][Flags(a[agent])]])

----------------------------------------------------------------------------
(* Claims on the sequential program (SpecSeq) *)

\* C1: for n >= 1, m >= 1 and a total bid set, the sequential solveAllocation
\* returns the maximum welfare over all (n+1)^m assignments.
C1_TotalUtilityIsMaximum ==
    (pc = "solved" /\ n >= 1 /\ m >= 1 /\ IsTotal(bs, n, m))
        => s.TotalUtility = MaxWelfare(bs, n, m)

\* C4: for n >= 0, m >= 1 and every bid set, the returned Allocation puts
\* every item of [0, m) in the group of exactly one agent of 0..n.
C4_EveryItemInExactlyOneGroup ==
    (pc = "solved" /\ m >= 1)
        => \A item \in 0..(m - 1) :
              Cardinality({agent \in 0..n : item \in Assigned(agent)}) = 1

\* C5: after solveAllocation and CalculatePrices on a total bid set, the
\* payment of every agent i in 1..n is W(optimum without i) - (W(optimum) -
\* bid_i(bundle of i)), and the payment of agent 0 is 0.
C5_PricingInvariant ==
    (pc = "priced" /\ n >= 1 /\ m >= 1 /\ IsTotal(bs, n, m))
        => \A i \in 0..n :
              /\ i \in DOMAIN s.PricePerAgent
              /\ s.PricePerAgent[i] =
                    IF i = 0 THEN 0
                    ELSE MaxWelfare(Without(bs, i), n - 1, m)
                         - (MaxWelfare(bs, n, m) - bs[i][Flags(Assigned(i))])

\* the bid set of the scenario: agent 1 bids 3 and agent 2 bids 7 for item 0
ScenarioBidSet == BidSetOf(2, <<(0 :> 0 @@ 1 :> 3), (0 :> 0 @@ 1 :> 7)>>)

ScenarioPriced == pc = "priced" /\ n = 2 /\ m = 1 /\ bs = ScenarioBidSet

\* C6 as claimed: item 0 goes to agent 2 with welfare 7, and the payment
\* entries are 3 for agent 2 and 7 for agent 1.
C6_ScenarioAsClaimed ==
    ScenarioPriced
        => /\ s.Allocation = (0 :> {} @@ 1 :> {} @@ 2 :> {0})
           /\ s.TotalUtility = 7
           /\ s.PricePerAgent[2] = 3
           /\ s.PricePerAgent[1] = 7

\* C6 as amended: item 0 goes to agent 2 with welfare 7, and the payment
\* entries are 3 for agent 2 and 0 for agent 1 (and 0 for agent 0).
C6_ScenarioAmended ==
    ScenarioPriced
        => /\ s.Allocation = (0 :> {} @@ 1 :> {} @@ 2 :> {0})
           /\ s.TotalUtility = 7
           /\ s.PricePerAgent = (0 :> 0 @@ 1 :> 0 @@ 2 :> 3)

C6_Witness == ScenarioPriced /\ s.TotalUtility = 7 /\ 2 \in DOMAIN s.PricePerAgent

\* C7: for m = 0 and bids as the generator produces them for m = 0, the
\* result is the empty allocation, welfare 0 and a payment of 0 for everyone.
C7_NoItems ==
    (pc = "priced" /\ m = 0 /\ \A a \in 1..n : bs[a] \in GeneratedBids(0))
        => /\ \A agent \in 0..n : Assigned(agent) = {}
           /\ s.TotalUtility = 0
           /\ \A i \in DOMAIN s.PricePerAgent : s.PricePerAgent[i] = 0

\* C8: for n = 0 and m >= 1, solveAllocation returns the allocation that
\* gives every item of [0, m) to agent 0, with welfare 0.
C8_NoAgents ==
    (pc = "solved" /\ n = 0 /\ m >= 1)
        => /\ s.Allocation = [agent \in {0} |-> 0..(m - 1)]
           /\ s.TotalUtility = 0

\* C9: the welfare retained for the incumbent is the sum of the recorded
\* bids of its allocation; no value stands in for a bundle without a bid.
\* (Stated for the agents 1..4 the welfare switch knows and for m >= 1.)
C9_NoSubstitutedUtility ==
    (pc = "solved" /\ n >= 1 /\ n <= 4 /\ m >= 1)
        => s.TotalUtility = RecordedUtility(s.Allocation, bs)

\* the Allocation that gives every agent 0..nn its bundle under f
AllocationOf(f, nn) == [agent \in 0..nn |-> BundleOf(f, agent)]

\* the order of the leaves: item 0 is decided first and the agents are tried
\* in ascending id, so f comes before g when f has the smaller agent at the
\* first item where they differ
Precedes(f, g) ==
    \E i \in DOMAIN f :
        /\ f[i] < g[i]
        /\ \A j \in DOMAIN f : j < i => f[j] = g[j]

\* the first assignment, in the order of the leaves, with the maximum welfare
FirstOptimum(bids, nn, mm) ==
    LET w == MaxWelfare(bids, nn, mm)
        Optima == {f \in Assignments(nn, mm) : Welfare(f, bids, nn) = w}
    IN CHOOSE f \in Optima : \A g \in Optima : g = f \/ Precedes(f, g)

\* C11: for every total bid set, ties included, the Allocation the sequential
\* search returns is the first one, in the order of the leaves, among the
\* allocations with the maximum welfare.
C11_FirstOptimumIsReturned ==
    (pc = "solved" /\ n >= 1 /\ m >= 1 /\ IsTotal(bs, n, m))
        => s.Allocation = AllocationOf(FirstOptimum(bs, n, m), n)

\* C13: for n = 1, m >= 1 and a total bid function, the problem without the
\* only agent has welfare 0 and the payment of agent 1 is 0.
C13_SingleAgentPaysNothing ==
    (pc = "priced" /\ n = 1 /\ m >= 1 /\ IsTotal(bs, n, m))
        => /\ P1_solveAllocation(CopyExcludingAgent(bs, 1), 0, m).TotalUtility = 0
           /\ 1 \in DOMAIN s.PricePerAgent
           /\ s.PricePerAgent[1] = 0

\* C20: for n, m >= 1 and a total bid set, after solveAllocation and
\* CalculatePrices every agent i in 1..n has a payment that is at least 0
\* and at most the bid of i for the bundle the Allocation gives it.
C20_PaymentWithinBid ==
    (pc = "priced" /\ n >= 1 /\ m >= 1 /\ IsTotal(bs, n, m))
        => \A i \in 1..n :
              /\ i \in DOMAIN s.PricePerAgent
              /\ 0 <= s.PricePerAgent[i]
              /\ s.PricePerAgent[i] <= bs[i][Flags(Assigned(i))]

----------------------------------------------------------------------------
(* The generator as a program: bs := randomizeBidSet(n, m), src/main.go *)

GenShapes ==
    {sh \in (0..MaxN) \X (0..MaxM) :
        /\ Slots(sh[1], sh[2]) <= MaxGenSlots
        /\ Fits(MaxDraw + 1, DrawCount(sh[2]), MaxDrawSeqs)}

\* bs = make(BidSet, n+1); a := 1
InitGen ==
    /\ pc = "randomize"
    /\ s = ZeroSolution
    /\ gen_a = 1
    /\ tasks = Nil
    /\ heap = Nil
    /\ IdleMain
    /\ IdleSecond
    /\ \E sh \in GenShapes :
          /\ n = sh[1]
          /\ m = sh[2]
          /\ bs = [x \in 0..sh[1] |-> Nil]

\* one turn of the loop: bs[a] = getRandomBid(m); a++
GetRandomBid ==
    /\ pc = "randomize"
    /\ gen_a <= n
    /\ \E draws \in [1..DrawCount(m) -> Draws] :
          bs' = [bs EXCEPT ![gen_a] = getRandomBid(m, draws)]
    /\ gen_a' = gen_a + 1
    /\ UNCHANGED <<n, m, pc, s, tasks, heap, mainVars, secondVars>>

\* the loop ends and randomizeBidSet returns
RandomizeReturn ==
    /\ pc = "randomize"
    /\ gen_a > n
    /\ pc' = "generated"
    /\ UNCHANGED <<n, m, bs, s, gen_a, tasks, heap, mainVars, secondVars>>

NextGen == GetRandomBid \/ RandomizeReturn

SpecGen == InitGen /\ [][NextGen]_vars

----------------------------------------------------------------------------
(* Claims on the generator (SpecGen) *)

\* C10: for n >= 1 and m >= 1, after randomizeBidSet(n, m) every agent 1..n
\* has a utility for every bundle in [0, 2^m), whatever the draws, and the
\* utility of the empty bundle is 0.
C10_GeneratedBidsAreTotal ==
    (pc = "generated" /\ n >= 1 /\ m >= 1)
        => \A a \in 1..n :
              /\ \A c \in 0..(Pow2(m) - 1) : c \in DOMAIN bs[a]
              /\ bs[a][0] = 0

C10_Witness ==
    /\ pc = "generated"
    /\ n >= 2
    /\ m >= 2
    /\ \A a \in 1..n : bs[a][Pow2(m) - 1] > 0

----------------------------------------------------------------------------
(* Concurrent search, src/main.go 158..195.                                *)
(*                                                                         *)
(* A goroutine is named by the agents chosen on the way to it: task t      *)
(* decides item Len(t)-1 for agent t[Len(t)].  An Allocation is a Go map,  *)
(* a reference: heap holds the instances by name, and the parameter a of a *)
(* goroutine is the name of the instance it reads and writes.  The         *)
(* instance solveAllocation makes is named <<>>; the instance a.Copy()     *)
(* makes for the go statement of goroutine u is named u.  The Solution s   *)
(* is shared by all goroutines and nothing guards it, so the comparison    *)
(* with s.TotalUtility, the write of s.Allocation and the write of         *)
(* s.TotalUtility are three steps other goroutines can run between.  What  *)
(* a goroutine does between two of its steps on s is joined to the next.   *)

Agent(t) == t[Len(t)]

CurrentItem(t) == Len(t) - 1

Children(t) == {u \in DOMAIN tasks : Len(u) = Len(t) + 1 /\ SubSeq(u, 1, Len(t)) = t}

\* wg.Wait() left out: the call returns without waiting for its goroutines
NoWait(t) == TRUE

\* wg.Wait() returns: every goroutine started by the call has called wg.Done()
AllDone(t) == \A u \in Children(t) : tasks[u].pc = "done"

\* the goroutines the call made by t starts: one per agent of the Allocation a
Started(t, h, a) == {Append(t, agent) : agent \in 0..(Cardinality(DOMAIN h[a]) - 1)}

\* the argument a of the go statement passed as it is: the same instance
SameInstance(a, u) == a

\* the argument a.Copy() of the go statement of goroutine u: a new instance
CopyInstance(a, u) == u

\* the loop of go statements: one goroutine per agent
Spawn(t, h, a) ==
    [u \in DOMAIN tasks \cup Started(t, h, a) |->
        IF u \in Started(t, h, a)
        THEN [pc |-> "start", a |-> CopyInstance(a, u), total_utility |-> 0]
        ELSE tasks[u]]

\* the instances after the loop of go statements: each a.Copy() has the
\* agents and items of a
SpawnHeap(t, h, a) ==
    [x \in DOMAIN h \cup {CopyInstance(a, u) : u \in Started(t, h, a)} |->
        IF x \in DOMAIN h THEN h[x] ELSE Copy(h[a])]

\* a[agent][current_item] = true
Assign(h, t) == [h EXCEPT ![tasks[t].a][Agent(t)] = @ \cup {CurrentItem(t)}]

\* delete(a[agent], current_item)
Unassign(h, t) == [h EXCEPT ![tasks[t].a][Agent(t)] = @ \ {CurrentItem(t)}]

\* at most MaxLeaves goroutines reach a leaf: (n+1)^m of them
ConcShapes ==
    {sh \in (0..MaxN) \X (0..MaxM) :
        /\ Fits(sh[1] + 1, Max(sh[2], 1), MaxLeaves)
        /\ Fits(MaxDraw + 1, DrawCount(sh[2]), MaxDrawSeqs)}

\* main after bs := randomizeBidSet(n, m)
InitConc ==
    /\ pc = "start"
    /\ s = ZeroSolution
    /\ gen_a = 0
    /\ tasks = Nil
    /\ heap = Nil
    /\ IdleMain
    /\ IdleSecond
    /\ \E sh \in ConcShapes :
          /\ n = sh[1]
          /\ m = sh[2]
          /\ \E f \in [1..sh[1] -> GeneratedBids(sh[2])] : bs = BidSetOf(sh[1], f)

\* solveAllocation: the allocation is made and the first call starts one
\* goroutine per agent for item 0, then waits
ConcSolveAllocation ==
    /\ pc = "start"
    /\ LET allocation == (<<>> :> NewAllocation(n))
       IN /\ tasks' = Spawn(<<>>, allocation, <<>>)
          /\ heap' = SpawnHeap(<<>>, allocation, <<>>)
    /\ pc' = "wait"
    /\ UNCHANGED <<n, m, bs, s, gen_a, mainVars, secondVars>>

\* a goroutine above the last item: assign, then the recursive call starts
\* one goroutine per agent for the next item and waits
TaskDescend(t) ==
    /\ tasks[t].pc = "start"
    /\ CurrentItem(t) < m - 1
    /\ tasks' = [Spawn(t, Assign(heap, t), tasks[t].a) EXCEPT ![t].pc = "waiting"]
    /\ heap' = SpawnHeap(t, Assign(heap, t), tasks[t].a)
    /\ UNCHANGED <<n, m, bs, pc, s, gen_a, mainVars, secondVars>>

\* a goroutine at the last item: assign, compute the welfare and compare it
\* with the shared incumbent; when it is not better, cleanup and wg.Done()
TaskCompare(t) ==
    /\ tasks[t].pc = "start"
    /\ ~(CurrentItem(t) < m - 1)
    /\ LET total_utility == FindTotalUtility(Assign(heap, t)[tasks[t].a], bs)
       IN IF s.TotalUtility < total_utility
          THEN /\ tasks' = [tasks EXCEPT ![t].pc = "compared",
                                         ![t].total_utility = total_utility]
               /\ heap' = Assign(heap, t)
          ELSE /\ tasks' = [tasks EXCEPT ![t].pc = "done",
                                         ![t].total_utility = total_utility]
               /\ heap' = Unassign(Assign(heap, t), t)
    /\ UNCHANGED <<n, m, bs, pc, s, gen_a, mainVars, secondVars>>

\* s.Allocation = a.Copy()
TaskWriteAllocation(t) ==
    /\ tasks[t].pc = "compared"
    /\ s' = [s EXCEPT !.Allocation = Copy(heap[tasks[t].a])]
    /\ tasks' = [tasks EXCEPT ![t].pc = "wroteAllocation"]
    /\ UNCHANGED <<n, m, bs, pc, gen_a, heap, mainVars, secondVars>>

\* s.TotalUtility = total_utility; then the cleanup and wg.Done()
TaskWriteTotalUtility(t) ==
    /\ tasks[t].pc = "wroteAllocation"
    /\ s' = [s EXCEPT !.TotalUtility = tasks[t].total_utility]
    /\ tasks' = [tasks EXCEPT ![t].pc = "done"]
    /\ heap' = Unassign(heap, t)
    /\ UNCHANGED <<n, m, bs, pc, gen_a, mainVars, secondVars>>

\* wg.Wait() of the recursive call returns; cleanup and wg.Done()
TaskJoin(t) ==
    /\ tasks[t].pc = "waiting"
    /\ AllDone(t)
    /\ tasks' = [tasks EXCEPT ![t].pc = "done"]
    /\ heap' = Unassign(heap, t)
    /\ UNCHANGED <<n, m, bs, pc, s, gen_a, mainVars, secondVars>>

\* wg.Wait() of the first call returns and solveAllocation returns s
ConcSolveReturn ==
    /\ pc = "wait"
    /\ AllDone(<<>>)
    /\ pc' = "returned"
    /\ UNCHANGED <<n, m, bs, s, gen_a, tasks, heap, mainVars, secondVars>>

Descend == \E t \in DOMAIN tasks : TaskDescend(t)

Compare == \E t \in DOMAIN tasks : TaskCompare(t)

WriteAllocation == \E t \in DOMAIN tasks : TaskWriteAllocation(t)

WriteTotalUtility == \E t \in DOMAIN tasks : TaskWriteTotalUtility(t)

Join == \E t \in DOMAIN tasks : TaskJoin(t)

NextConc ==
    \/ ConcSolveAllocation
    \/ Descend
    \/ Compare
    \/ WriteAllocation
    \/ WriteTotalUtility
    \/ Join
    \/ ConcSolveReturn

SpecConc == InitConc /\ [][NextConc]_vars

\* the Go scheduler runs a runnable goroutine: while some goroutine, or the
\* caller whose wg.Wait() can return, has a step to take, a step is taken
SpecConcFair == SpecConc /\ WF_vars(NextConc)

----------------------------------------------------------------------------
(* Claims on the concurrent search (SpecConc) *)

\* C2: for n, m >= 1 the concurrent solveAllocation ends with the same
\* TotalUtility under every interleaving, the optimal welfare that a
\* sequential depth-first search returns.
C2_ConcurrentWelfareIsOptimal ==
    (pc = "returned" /\ n >= 1 /\ m >= 1)
        => s.TotalUtility = MaxWelfare(bs, n, m)

\* C3: the comparison of a leaf's welfare with the incumbent and the writes
\* that follow are one atomic step, no other goroutine reading or writing the
\* incumbent in between; so no step of the search lowers s.TotalUtility.
C3_TotalUtilityNeverDecreases ==
    [][s'.TotalUtility >= s.TotalUtility]_vars

\* the goroutines that hold the instance x as their parameter a
Holders(x) == {t \in DOMAIN tasks : tasks[t].a = x}

\* C12: every goroutine builds its partial allocation in its own copy: a step
\* that changes an Allocation instance is a step of the one goroutine that
\* holds it, and the instance solveAllocation made is never changed.
C12_TasksWriteOwnCopy ==
    [][\A x \in DOMAIN heap :
          heap'[x] # heap[x]
              => /\ x # <<>>
                 /\ \E t \in DOMAIN tasks :
                       /\ Holders(x) = {t}
                       /\ tasks'[t] # tasks[t]]_vars

\* a goroutine waits for its children, one of them has assigned its item in
\* its own copy, and the two instances differ
C12_Witness ==
    \E t \in DOMAIN tasks : \E u \in Children(t) :
        /\ tasks[t].pc = "waiting"
        /\ tasks[u].pc = "compared"
        /\ tasks[t].a # tasks[u].a
        /\ CurrentItem(u) \in heap[tasks[u].a][Agent(u)]
        /\ CurrentItem(u) \notin heap[tasks[t].a][Agent(u)]

\* the sum over the agents 1..n of the bid for the bundle a gives the agent
WelfareOf(a, bids) ==
    SumOver({agent \in DOMAIN a : agent > 0},
            [agent \in DOMAIN a |-> bids[agent][Flags(a[agent])]])

\* C18: when the concurrent solveAllocation has returned, TotalUtility is the
\* welfare of the Allocation of the same Solution.
C18_TotalUtilityIsOfAllocation ==
    pc = "returned" => s.TotalUtility = WelfareOf(s.Allocation, bs)

\* C19: the search terminates; a call returns only when the goroutines it
\* started are done; once solveAllocation has returned every goroutine is
\* done and s is not written again.
C19_JoinBeforeReturn ==
    /\ <>(pc = "returned")
    /\ [](\A t \in DOMAIN tasks :
            tasks[t].pc = "done" => \A u \in Children(t) : tasks[u].pc = "done")
    /\ [](pc = "returned" => \A t \in DOMAIN tasks : tasks[t].pc = "done")
    /\ [][pc = "returned" => s' = s]_vars

\* solveAllocation has returned after goroutines two levels deep have run
\* and the incumbent has been written
C19_Witness ==
    /\ pc = "returned"
    /\ s.TotalUtility > 0
    /\ \E t \in DOMAIN tasks : Len(t) = 2 /\ tasks[t].pc = "done"

----------------------------------------------------------------------------
(* The concurrent program from its arguments on, src/main.go 96..127.      *)
(*                                                                         *)
(* An argument is a sequence of characters.  n, m and bs are the           *)
(* parameters of the solveAllocation that runs: main's own while main      *)
(* solves, and those of the call made by CalculatePrices while it          *)
(* re-solves; caller then keeps what CalculatePrices goes back to.         *)

DigitChars == <<"0", "1", "2", "3", "4", "5", "6", "7", "8", "9">>

\* the value of a decimal digit, -1 for any other character
DigitValue(c) ==
    IF \E d \in 1..Len(DigitChars) : DigitChars[d] = c
    THEN (CHOOSE d \in 1..Len(DigitChars) : DigitChars[d] = c) - 1
    ELSE -1

\* the value of a sequence of decimal digits, -1 when it is empty or holds
\* another character
RECURSIVE ParseDigits(_, _)
ParseDigits(str, acc) ==
    IF str = <<>> THEN acc
    ELSE IF DigitValue(Head(str)) < 0 THEN -1
         ELSE ParseDigits(Tail(str), 10 * acc + DigitValue(Head(str)))

\* n, _ := strconv.Atoi(arg): an optional sign and decimal digits; on a
\* syntax error Atoi returns 0 and the error is dropped
Atoi(str) ==
    LET signed == str # <<>> /\ Head(str) \in {"+", "-"}
        digits == IF signed THEN Tail(str) ELSE str
        value == IF digits = <<>> THEN -1 ELSE ParseDigits(digits, 0)
    IN IF value < 0 THEN 0
       ELSE IF signed /\ Head(str) = "-" THEN 0 - value ELSE value

\* the decimal form of an integer, as a caller of the program writes it
RECURSIVE Itoa(_)
Itoa(k) ==
    IF k < 0 THEN <<"-">> \o Itoa(0 - k)
    ELSE IF k < 10 THEN <<DigitChars[k + 1]>>
         ELSE Append(Itoa(k \div 10), DigitChars[(k % 10) + 1])

\* the argument strings: integers in decimal, and strings that are none
ArgStrings ==
    {Itoa(k) : k \in (0 - MaxNegative)..MaxN} \cup {<<"x">>, <<"1", "x">>, <<>>}

\* the (n, m) the program is run for: a search of at most MaxMainLeaves leaves
MainShapes ==
    {sh \in ((0 - MaxNegative)..MaxN) \X ((0 - MaxNegative)..MaxM) :
        /\ sh[1] >= 0 => Fits(sh[1] + 1, Max(sh[2], 1), MaxMainLeaves)
        /\ Fits(MaxDraw + 1, DrawCount(sh[2]), MaxDrawSeqs)}

InitMain ==
    /\ pc = "main"
    /\ n = 0
    /\ m = 0
    /\ bs = Nil
    /\ s = ZeroSolution
    /\ gen_a = 0
    /\ tasks = Nil
    /\ heap = Nil
    /\ exit_status = -1
    /\ solution = ZeroSolution
    /\ caller = <<>>
    /\ IdleSecond
    /\ \/ \E a1 \in ArgStrings, a2 \in ArgStrings :
            /\ <<Atoi(a1), Atoi(a2)>> \in MainShapes
            /\ args = <<"vcg", a1, a2>>
       \/ args \in {<<"vcg">>, <<"vcg", Itoa(1)>>, <<"vcg", Itoa(1), Itoa(1), Itoa(1)>>}

\* if len(os.Args) != 3 { os.Exit(1) }; n, _ := Atoi; m, _ := Atoi
MainParse ==
    /\ pc = "main"
    /\ IF Len(args) # 3
       THEN /\ exit_status' = 1
            /\ pc' = "exited"
            /\ UNCHANGED <<n, m>>
       ELSE /\ n' = Atoi(args[2])
            /\ m' = Atoi(args[3])
            /\ pc' = "parsed"
            /\ UNCHANGED exit_status
    /\ UNCHANGED <<bs, s, gen_a, tasks, heap, args, solution, caller, secondVars>>

\* bs := randomizeBidSet(n, m) is called: bs = make(BidSet, n+1), which
\* panics for a negative length; a := 1
MainRandomize ==
    /\ pc = "parsed"
    /\ IF n + 1 < 0
       THEN /\ exit_status' = 2
            /\ pc' = "panic"
            /\ UNCHANGED <<bs, gen_a>>
       ELSE /\ bs' = [x \in 0..n |-> Nil]
            /\ gen_a' = 1
            /\ pc' = "randomize"
            /\ UNCHANGED exit_status
    /\ UNCHANGED <<n, m, s, tasks, heap, args, solution, caller, secondVars>>

\* the bids are printed; solveAllocation(bs, n, m) is called
MainPrintBids ==
    /\ pc = "generated"
    /\ pc' = "start"
    /\ UNCHANGED <<n, m, bs, s, gen_a, tasks, heap, mainVars, secondVars>>

\* the agents the loop of CalculatePrices has a body for
Payers(a) == {agent \in DOMAIN a : agent > 0}

\* solution := solveAllocation(bs, n, m); solution.CalculatePrices(bs, n, m)
\* is called: s.PricePerAgent = make([]float64, len(s.Allocation))
MainSolved ==
    /\ pc = "returned"
    /\ caller = <<>>
    /\ solution' = [s EXCEPT !.PricePerAgent =
                       [i \in 0..(Cardinality(DOMAIN s.Allocation) - 1) |-> 0]]
    /\ caller' = <<[bs |-> bs, n |-> n, agent |-> 0, todo |-> Payers(s.Allocation)]>>
    /\ pc' = "pricing"
    /\ UNCHANGED <<n, m, bs, s, gen_a, tasks, heap, args, exit_status, secondVars>>

\* the receiver with the payment of one agent set, and with the Allocation
\* and TotalUtility of the alternative solution taken over
PricedSolutionAdopting(sol, agent, alternative_solution, bids) ==
    [sol EXCEPT !.PricePerAgent[agent] =
                    alternative_solution.TotalUtility
                    - FindTotalUtilityExceptAgent(sol.Allocation, bids, agent),
                !.Allocation = alternative_solution.Allocation,
                !.TotalUtility = alternative_solution.TotalUtility]

\* s.PricePerAgent[agent] = alternative_solution.TotalUtility -
\*     s.Allocation.FindTotalUtilityExceptAgent(bs, agent)
PricedSolution(sol, agent, alternative_solution, bids) ==
    [sol EXCEPT !.PricePerAgent[agent] =
                    alternative_solution.TotalUtility
                    - FindTotalUtilityExceptAgent(sol.Allocation, bids, agent)]

\* one turn of the loop over s.Allocation (a map: any order), agent > 0:
\* new_bs := bs.CopyExcludingAgent(agent); solveAllocation(new_bs, n-1, m)
\* is called
PriceCall ==
    /\ pc = "pricing"
    /\ \E agent \in caller[1].todo :
          /\ caller' = <<[caller[1] EXCEPT !.agent = agent, !.todo = @ \ {agent}]>>
          /\ bs' = CopyExcludingAgent(bs, agent)
    /\ n' = n - 1
    /\ s' = ZeroSolution
    /\ tasks' = Nil
    /\ heap' = Nil
    /\ pc' = "start"
    /\ UNCHANGED <<m, gen_a, args, exit_status, solution, secondVars>>

\* the solveAllocation called by CalculatePrices returns: the payment of the
\* agent is set
PriceReturn ==
    /\ pc = "returned"
    /\ caller # <<>>
    /\ solution' = PricedSolution(solution, caller[1].agent, s, caller[1].bs)
    /\ bs' = caller[1].bs
    /\ n' = caller[1].n
    /\ caller' = <<[caller[1] EXCEPT !.agent = 0]>>
    /\ pc' = "pricing"
    /\ UNCHANGED <<m, s, gen_a, tasks, heap, args, exit_status, secondVars>>

\* the loop of CalculatePrices ends and it returns
PriceDone ==
    /\ pc = "pricing"
    /\ caller[1].todo = {}
    /\ caller' = <<>>
    /\ pc' = "priced"
    /\ UNCHANGED <<n, m, bs, s, gen_a, tasks, heap, args, exit_status, solution, secondVars>>

\* the solution is printed and main returns
MainExit ==
    /\ pc = "priced"
    /\ exit_status' = 0
    /\ pc' = "exited"
    /\ UNCHANGED <<n, m, bs, s, gen_a, tasks, heap, args, solution, caller, secondVars>>

NextMain ==
    \/ MainParse
    \/ MainRandomize
    \/ GetRandomBid
    \/ RandomizeReturn
    \/ MainPrintBids
    \/ ConcSolveAllocation
    \/ Descend
    \/ Compare
    \/ WriteAllocation
    \/ WriteTotalUtility
    \/ Join
    \/ ConcSolveReturn
    \/ MainSolved
    \/ PriceCall
    \/ PriceReturn
    \/ PriceDone
    \/ MainExit

SpecMain == InitMain /\ [][NextMain]_vars

----------------------------------------------------------------------------
(* Claims on the concurrent program (SpecMain) *)

\* the arguments give an n or an m that is not positive, or not an integer
InvalidArguments ==
    /\ Len(args) = 3
    /\ \/ Atoi(args[2]) <= 0
       \/ Atoi(args[3]) <= 0

\* C14: started with n <= 0 or m <= 0, or with an argument that is not an
\* integer, the program neither calls the bid generator nor the search, and
\* when it has ended its exit status is not 0.
C14_InvalidArgumentsRejected ==
    InvalidArguments
        => /\ pc \in {"main", "parsed", "exited"}
           /\ pc = "exited" => exit_status # 0

\* the bid set CalculatePrices was called with
ReceiverBids == IF caller # <<>> THEN caller[1].bs ELSE bs

\* C15: while CalculatePrices runs, the re-solves included, and when it
\* returns, the Allocation and TotalUtility of its Solution and the bid set
\* it was called with are what they were; it only sets the payment vector.
C15_CalculatePricesFrame ==
    [][caller # <<>>
          => /\ solution'.Allocation = solution.Allocation
             /\ solution'.TotalUtility = solution.TotalUtility
             /\ ReceiverBids' = ReceiverBids]_vars

\* CalculatePrices has returned after two re-solves and set a payment
C15_Witness ==
    /\ pc = "priced"
    /\ n >= 2
    /\ \E i \in DOMAIN solution.PricePerAgent : solution.PricePerAgent[i] > 0

----------------------------------------------------------------------------
(* Second-best tracking search, src/main.go 197..369.                      *)
(*                                                                         *)
(* One Allocation instance, heap[<<>>], is made by main and passed down    *)
(* the recursion as it is.  stack holds the calls of                       *)
(* recursiveAllocationGenerator, the running one last: its current_item    *)
(* and the agents its `range a` has not yet come to (a Go map is ranged    *)
(* in no fixed order).  A pointer to a Solution is <<>> when nil and       *)
(* <<sol>> otherwise.  output holds the leaves as printed ("Considering    *)
(* allocation", "Total utility"), each with the number of times printed.   *)

\* the zero value of the Solution of this variant
ZeroSecondSolution ==
    [Allocation |-> Nil, TotalUtility |-> 0, PricePerAgent |-> Nil,
     BestSolution |-> <<>>, SecondSolution |-> <<>>]

\* &Solution{Allocation: a.Copy(), TotalUtility: total_utility}
NewSolution(a, total_utility) ==
    <<[Allocation |-> Copy(a), TotalUtility |-> total_utility]>>

\* the update at a leaf with the first branch keeping SecondSolution
TrackWithoutDemotion(sol, a, total_utility) ==
    IF sol.BestSolution = <<>> \/ sol.BestSolution[1].TotalUtility < total_utility
    THEN [sol EXCEPT !.BestSolution = NewSolution(a, total_utility)]
    ELSE IF sol.SecondSolution = <<>> \/ sol.SecondSolution[1].TotalUtility < total_utility
         THEN [sol EXCEPT !.SecondSolution = NewSolution(a, total_utility)]
         ELSE sol

\* the update at a leaf: a better leaf becomes BestSolution and the old one
\* SecondSolution; otherwise a leaf better than SecondSolution replaces it
Track(sol, a, total_utility) ==
    IF sol.BestSolution = <<>> \/ sol.BestSolution[1].TotalUtility < total_utility
    THEN [sol EXCEPT !.SecondSolution = sol.BestSolution,
                     !.BestSolution = NewSolution(a, total_utility)]
    ELSE IF sol.SecondSolution = <<>> \/ sol.SecondSolution[1].TotalUtility < total_utility
         THEN [sol EXCEPT !.SecondSolution = NewSolution(a, total_utility)]
         ELSE sol

\* if agent != 0 { delete(a[agent-1], current_item) }; al[current_item] = true
Reassign(a, agent, current_item) ==
    LET deleted == IF agent # 0 /\ (agent - 1) \in DOMAIN a
                   THEN [a EXCEPT ![agent - 1] = @ \ {current_item}]
                   ELSE a
    IN [deleted EXCEPT ![agent] = @ \cup {current_item}]

\* one more printed leaf
Printed(out, leaf) ==
    IF leaf \in DOMAIN out THEN [out EXCEPT ![leaf] = @ + 1]
    ELSE [x \in DOMAIN out \cup {leaf} |-> IF x = leaf THEN 1 ELSE out[x]]

\* Solution.CalculatePrices of this variant: the welfare of SecondSolution
\* stands for every agent's "without me" term
CachedPrices(sol, bids) ==
    [agent \in 0..(Cardinality(DOMAIN sol.Allocation) - 1) |->
        IF agent > 0
        THEN FindTotalUtility(sol.SecondSolution[1].Allocation, bids)
             - FindTotalUtilityExceptAgent(sol.Allocation, bids, agent)
        ELSE 0]

\* the (n, m) of the second-best search: at most MaxSecondLeaves leaves, and
\* a bid set the generator makes from at most MaxDrawSeqs sequences of draws
SecondShapes ==
    {sh \in (0..MaxN) \X (0..MaxM) :
        /\ Fits(sh[1] + 1, Max(sh[2], 1), MaxSecondLeaves)
        /\ Fits(MaxDraw + 1, Max(sh[1], 1) * DrawCount(sh[2]), MaxDrawSeqs)}

\* main after bs := randomizeBidSet(n, m); var solution Solution
InitSecond ==
    /\ pc = "start"
    /\ s = ZeroSolution
    /\ gen_a = 0
    /\ tasks = Nil
    /\ heap = Nil
    /\ args = <<>>
    /\ exit_status = -1
    /\ caller = <<>>
    /\ solution = ZeroSecondSolution
    /\ IdleSecond
    /\ \E sh \in SecondShapes :
          /\ n = sh[1]
          /\ m = sh[2]
          /\ \E f \in [1..sh[1] -> GeneratedBids(sh[2])] : bs = BidSetOf(sh[1], f)

\* allocation := make(Allocation) with a set per agent;
\* recursiveAllocationGenerator(&solution, bs, allocation, 0, m) is called
SecondCall ==
    /\ pc = "start"
    /\ heap' = (<<>> :> NewAllocation(n))
    /\ stack' = <<[current_item |-> 0, todo |-> 0..n]>>
    /\ pc' = "search"
    /\ UNCHANGED <<n, m, bs, s, gen_a, tasks, mainVars, output>>

\* a turn of the loop above the last item: the recursive call is made
SecondDescend ==
    /\ pc = "search"
    /\ stack # <<>>
    /\ LET top == stack[Len(stack)]
       IN /\ top.current_item < m - 1
          /\ \E agent \in top.todo :
                /\ heap' = [heap EXCEPT ![<<>>] = Reassign(@, agent, top.current_item)]
                /\ stack' = Append([stack EXCEPT ![Len(stack)].todo = @ \ {agent}],
                                   [current_item |-> top.current_item + 1,
                                    todo |-> DOMAIN heap[<<>>]])
    /\ UNCHANGED <<n, m, bs, pc, s, gen_a, tasks, mainVars, output>>

\* a turn of the loop at the last item: the allocation is printed, valued
\* and compared, then delete(a[agent], current_item)
SecondLeaf ==
    /\ pc = "search"
    /\ stack # <<>>
    /\ LET top == stack[Len(stack)]
       IN /\ ~(top.current_item < m - 1)
          /\ \E agent \in top.todo :
                LET a == Reassign(heap[<<>>], agent, top.current_item)
                    total_utility == FindTotalUtility(a, bs)
                IN /\ output' = Printed(output, [a |-> a, total_utility |-> total_utility])
                   /\ solution' = Track(solution, a, total_utility)
                   /\ heap' = [heap EXCEPT ![<<>>] =
                                  [a EXCEPT ![agent] = @ \ {top.current_item}]]
                   /\ stack' = [stack EXCEPT ![Len(stack)].todo = @ \ {agent}]
    /\ UNCHANGED <<n, m, bs, pc, s, gen_a, tasks, args, exit_status, caller>>

\* the loop has come to every agent: the call returns
SecondReturn ==
    /\ pc = "search"
    /\ stack # <<>>
    /\ stack[Len(stack)].todo = {}
    /\ stack' = SubSeq(stack, 1, Len(stack) - 1)
    /\ UNCHANGED <<n, m, bs, pc, s, gen_a, tasks, heap, mainVars, output>>

\* main after the search: solution.Allocation =
\* solution.BestSolution.Allocation.Copy(); solution.TotalUtility = ...;
\* solution.CalculatePrices(bs)
SecondPrices ==
    /\ pc = "search"
    /\ stack = <<>>
    /\ LET best == [solution EXCEPT
                       !.Allocation = Copy(solution.BestSolution[1].Allocation),
                       !.TotalUtility = solution.BestSolution[1].TotalUtility]
       IN solution' = [best EXCEPT !.PricePerAgent = CachedPrices(best, bs)]
    /\ pc' = "priced"
    /\ UNCHANGED <<n, m, bs, s, gen_a, tasks, heap, args, exit_status, caller, secondVars>>

NextSecond ==
    \/ SecondCall
    \/ SecondDescend
    \/ SecondLeaf
    \/ SecondReturn
    \/ SecondPrices

SpecSecond == InitSecond /\ [][NextSecond]_vars

----------------------------------------------------------------------------
(* Claims on the second-best search (SpecSecond) *)

\* every item of [0, mm) is in the set of exactly one agent of a
EveryItemOnce(a, mm) ==
    \A item \in 0..(mm - 1) :
        Cardinality({agent \in DOMAIN a : item \in a[agent]}) = 1

\* C16: for n, m >= 1 and every order of the agents, every allocation
\* evaluated at a leaf, and so BestSolution's and SecondSolution's, gives
\* every item of [0, m) to exactly one agent.
C16_LeavesAssignEveryItemOnce ==
    (n >= 1 /\ m >= 1)
        => /\ \A leaf \in DOMAIN output : EveryItemOnce(leaf.a, m)
           /\ solution.BestSolution # <<>>
                 => EveryItemOnce(solution.BestSolution[1].Allocation, m)
           /\ solution.SecondSolution # <<>>
                 => EveryItemOnce(solution.SecondSolution[1].Allocation, m)

\* the number of leaves evaluated with welfare w
Evaluated(w) ==
    SumOver({leaf \in DOMAIN output : leaf.total_utility = w},
            [leaf \in DOMAIN output |-> output[leaf]])

LeafUtilities == {leaf.total_utility : leaf \in DOMAIN output}

LargestUtility == CHOOSE w \in LeafUtilities : \A v \in LeafUtilities : v <= w

\* the largest welfare among the evaluated leaves other than one leaf with
\* the largest welfare
NextLargestUtility ==
    IF Evaluated(LargestUtility) >= 2 THEN LargestUtility
    ELSE CHOOSE w \in LeafUtilities \ {LargestUtility} :
            \A v \in LeafUtilities \ {LargestUtility} : v <= w

\* C17: once two leaves are evaluated, BestSolution has the largest welfare
\* of the evaluated leaves and SecondSolution the largest of the remaining
\* ones, in every order of evaluation.
C17_BestAndSecondTracked ==
    SumOver(LeafUtilities, [w \in LeafUtilities |-> Evaluated(w)]) >= 2
        => /\ solution.BestSolution # <<>>
           /\ solution.SecondSolution # <<>>
           /\ solution.BestSolution[1].TotalUtility = LargestUtility
           /\ solution.SecondSolution[1].TotalUtility = NextLargestUtility

\* the search is over, a later leaf became BestSolution and the earlier best
\* SecondSolution, with different welfares
C17_Witness ==
    /\ pc = "priced"
    /\ Cardinality(LeafUtilities) >= 3
    /\ solution.SecondSolution[1].TotalUtility > 0
    /\ solution.SecondSolution[1].TotalUtility < solution.BestSolution[1].TotalUtility

====
